---- MODULE Spec2Model ----
(***************************************************************************)
(* pyteomics.achrom: the additive model of polypeptide chromatography.     *)
(*                                                                         *)
(*   get_RCs           calibration with a fixed length correction factor   *)
(*   get_RCs_vary_lcf  grid search for the length correction factor        *)
(*   calculate_RT      retention time of a peptide under a model           *)
(*                                                                         *)
(* Numbers.  The program computes with floats; the model computes with     *)
(* integers in fixed point.  A length correction factor is an integer      *)
(* number of hundredths (LcfUnit), a logarithm an integer number of tenths *)
(* (LnUnit), so the length correction term 1 + lcf*ln(L) is an integer     *)
(* number of thousandths (Den).  Retention times and retention             *)
(* coefficients are integers.  All arithmetic on these is exact.           *)
(*                                                                         *)
(* Labels.  A label is a pair <<prefix, residue>> with prefix "" for an    *)
(* internal residue and "nterm" / "cterm" for a terminal one, so           *)
(* <<"nterm", "A">> is the string 'ntermA' of the program.                 *)
(***************************************************************************)
EXTENDS Integers, Sequences, FiniteSets, TLC

VARIABLES
    peptides,             \* the caller's list of sequences (shared, read only)
    RTs,                  \* the caller's list of retention times (shared, mutable)
    RTs_in,               \* contents of RTs when the call was made
    pc,                   \* position of each get_RCs invocation
    length_correction_factor,
    term_aa,
    peptide_dicts,
    detected_amino_acids, \* the detected labels, in the set's iteration order
    composition_array,
    term_i,               \* position in ['nterm', 'cterm'] of the running loop
    RCs,                  \* solution vector of the solver
    RC_dict,
    err,                  \* exception that ended the invocation, "" if none
    solver_b,             \* the target vector handed to numpy.linalg.lstsq
    solver_called,
    regression_called,    \* per terminus: auxiliary.linear_regression was called
    \* get_RCs_vary_lcf
    vpc,                  \* position of the get_RCs_vary_lcf call
    lcf_range,
    min_lcf,
    max_lcf,
    step,                 \* in thousandths
    lcf_grid,
    grid_i,               \* position of the for loop in lcf_grid
    lcf,                  \* the factor the for loop is at
    regression_coeffs,    \* the correlation of the last factor, in tenths
    round_best,           \* history: the first best-scoring factor of the round
    best_r,               \* in tenths
    best_RC_dict,
    verr,
    \* calculate_RT
    cpc,                  \* position of the calculate_RT calls
    peptide,
    model,                \* the RC_dict handed to calculate_RT
    scale,                \* the factor k the model is scaled by
    RT,                   \* outcome of calculate_RT(peptide, model)
    RT_scaled,            \* outcome of calculate_RT(peptide, model scaled)
    predicted             \* calculate_RT of the training sequences, in order

calVars == <<pc, length_correction_factor, peptide_dicts,
             detected_amino_acids, composition_array, term_i, RCs, RC_dict,
             err, solver_b, solver_called, regression_called>>

searchVars == <<vpc, lcf_range, min_lcf, max_lcf, step, lcf_grid, grid_i, lcf,
                regression_coeffs, round_best, best_r, best_RC_dict, verr>>

predictVars == <<cpc, peptide, model, scale, RT, RT_scaled, predicted>>

vars == <<peptides, RTs, RTs_in, term_aa, calVars, searchVars, predictVars>>

----------------------------------------------------------------------------
(* Bounds of the model.                                                    *)

MaxSamples == 3    \* most sequences in a sample
MaxCoef == 1       \* retention coefficients are 0..MaxCoef

(* Fixed-point units.                                                      *)
LcfUnit == 100
LnUnit == 10
StepUnit == 1000
Den == LcfUnit * LnUnit

Procs == {1, 2}
Residues == {"A", "B"}
term_labels == <<"nterm", "cterm">>
Labels == {"", "nterm", "cterm"} \X Residues
CoefVals == 0..MaxCoef
RTValues == {1, 2}
LcfValues == {-21, 0}       \* -0.21 is the default of get_RCs

(* The sequences samples are made of. *)
TrainingPeptides ==
    << <<"A">>, <<"A", "A">>, <<"B">>, <<"A", "A", "B">>, <<"A", "B", "A">> >>

----------------------------------------------------------------------------
(* Generic helpers.                                                        *)

Range(s) == {s[i] : i \in 1..Len(s)}

SeqsUpTo(S, n) == UNION {[1..m -> S] : m \in 0..n}

RECURSIVE SumSeq(_)
SumSeq(s) == IF s = <<>> THEN 0 ELSE Head(s) + SumSeq(Tail(s))

RECURSIVE ListOf(_)
(* Iteration order of a Python set: arbitrary, but the same every time the *)
(* unchanged set is iterated.                                              *)
ListOf(S) ==
    IF S = {} THEN <<>>
    ELSE LET x == CHOOSE y \in S : TRUE IN <<x>> \o ListOf(S \ {x})

(* dict.get(key, 0.0) *)
Get(d, key) == IF key \in DOMAIN d THEN d[key] ELSE 0

Min(S) == CHOOSE m \in S : \A k \in S : m <= k

(* The sub-list of s at the positions I, in the order of s. *)
RECURSIVE SubList(_, _)
SubList(s, I) ==
    IF s = <<>> THEN <<>>
    ELSE LET rest == SubList(Tail(s), {i - 1 : i \in I \ {1}})
         IN IF 1 \in I THEN <<Head(s)>> \o rest ELSE rest

Samples ==
    {SubList(TrainingPeptides, I) :
        I \in {J \in SUBSET (1..Len(TrainingPeptides)) : Cardinality(J) <= MaxSamples}}

RTLists == SeqsUpTo(RTValues, MaxSamples)

----------------------------------------------------------------------------
(* Labels as the program's strings.                                        *)

(* aa.startswith(term_label) *)
startswith(aa, term_label) == aa[1] = term_label

(* aa.startswith('nterm') or aa.startswith('cterm'); for a label it is the *)
(* same test as aa[1:].startswith('term').                                 *)
IsTerminal(aa) == startswith(aa, "nterm") \/ startswith(aa, "cterm")

(* term_label + aa.  For an internal label it is the terminal label; for   *)
(* a label that has a prefix already it is a string that is no label.      *)
Plus(term_label, aa) == <<term_label \o aa[1], aa[2]>>

----------------------------------------------------------------------------
(* The collaborators: parser, numpy, auxiliary.                            *)

(* parser.amino_acid_composition(peptide, False, term_aa): the count of    *)
(* each label; with term_aa the first residue is counted under its nterm   *)
(* label and the last one, if it is not also the first, under its cterm    *)
(* label.                                                                  *)
amino_acid_composition(pep, ta) ==
    LET n == Len(pep)
        lab(i) == IF ta /\ i = 1 THEN <<"nterm", pep[i]>>
                  ELSE IF ta /\ i = n THEN <<"cterm", pep[i]>>
                  ELSE <<"", pep[i]>>
        keys == {lab(i) : i \in 1..n}
    IN [l \in keys |-> Cardinality({i \in 1..n : lab(i) = l})]

(* parser.peptide_length(peptide_dict): the number of residues. *)
peptide_length(peptide_dict) ==
    SumSeq([j \in 1..Cardinality(DOMAIN peptide_dict) |->
               peptide_dict[ListOf(DOMAIN peptide_dict)[j]]])

(* numpy.log, in tenths. *)
log(L) == CASE L = 1 -> 0 [] L = 2 -> 7 [] L = 3 -> 11 [] L = 4 -> 14
            [] L = 5 -> 16 [] OTHER -> 18

(* 1.0 + lcf * numpy.log(L), in thousandths. *)
LengthCorrection(factor, L) == Den + factor * log(L)

Dot(row, x) == SumSeq([j \in 1..Len(row) |-> row[j] * x[j]])

Residual(a, b, x) ==
    SumSeq([i \in 1..Len(a) |->
               LET d == Dot(a[i], x) - Den * b[i] IN d * d])

Norm2(x) == SumSeq([j \in 1..Len(x) |-> x[j] * x[j]])

(* numpy.linalg.lstsq(a, b).  It raises LinAlgError when a is not a        *)
(* matrix (no row at all) or when a and b differ in their number of rows.  *)
(* Otherwise it returns the solution of least residual and, among those,   *)
(* of least norm; the model looks for it among the vectors of CoefVals.    *)
(* a is in thousandths, b in units.                                        *)
lstsq(a, b) ==
    IF Len(a) = 0 \/ Len(a) # Len(b)
    THEN [raised |-> TRUE, x |-> {}]
    ELSE LET G == [1..Len(a[1]) -> CoefVals]
             res == [x \in G |-> Residual(a, b, x)]
             least == Min({res[x] : x \in G})
             best == {x \in G : res[x] = least}
             norm == Min({Norm2(x) : x \in best})
         IN [raised |-> FALSE, x |-> {x \in best : Norm2(x) = norm}]

(* auxiliary.linear_regression(x, y): slope a and intercept b of the       *)
(* least-squares line through the points, looked for among CoefVals, and   *)
(* what it does without any point is not known: it raises or it returns.   *)
linear_regression(x, y) ==
    LET G == CoefVals \X CoefVals
        res == [g \in G |->
                   SumSeq([i \in 1..Len(x) |->
                              LET d == g[1] * x[i] + g[2] - y[i] IN d * d])]
        least == Min({res[g] : g \in G})
        fits == {[raised |-> FALSE, a |-> g[1], b |-> g[2]] :
                    g \in {h \in G : res[h] = least}}
    IN IF Len(x) = 0
       THEN fits \cup {[raised |-> TRUE, a |-> 0, b |-> 0]}
       ELSE fits

----------------------------------------------------------------------------
(* The parts of get_RCs.                                                   *)

(* Lines 285-287. *)
PeptideDicts(ps, ta) == [i \in 1..Len(ps) |-> amino_acid_composition(ps[i], ta)]

(* Lines 289-290, as the list the set is iterated in. *)
DetectedAminoAcids(dicts) ==
    ListOf(UNION {DOMAIN dicts[i] : i \in 1..Len(dicts)})

(* CompositionArray with 1.0 for a label the peptide has, whatever its     *)
(* count.                                                                  *)
CompositionArrayPresence(ps, dicts, detected, factor) ==
    [i \in 1..Len(ps) |->
        [j \in 1..Len(detected) |->
            (IF detected[j] \in DOMAIN dicts[i] THEN 1 ELSE 0)
            * LengthCorrection(factor, peptide_length(dicts[i]))]
        \o <<Den>>]

(* Lines 294-300: one row per peptide, in thousandths. *)
CompositionArray(ps, dicts, detected, factor) ==
    [i \in 1..Len(ps) |->
        [j \in 1..Len(detected) |->
            Get(dicts[i], detected[j])
            * LengthCorrection(factor, peptide_length(dicts[i]))]
        \o <<Den>>]

(* NormalizingPeptide with -1.0 for every internal label, whether or not   *)
(* its terminal label is detected.                                         *)
NormalizingPeptideEveryInternal(term_label, detected) ==
    [j \in 1..Len(detected) |->
        IF startswith(detected[j], term_label) THEN Den
        ELSE IF ~IsTerminal(detected[j]) THEN -Den
        ELSE 0]
    \o <<0>>

(* Lines 308-316: the normalizing condition of a terminus, in thousandths. *)
NormalizingPeptide(term_label, detected) ==
    [j \in 1..Len(detected) |->
        IF startswith(detected[j], term_label) THEN Den
        ELSE IF Plus(term_label, detected[j]) \in Range(detected) THEN -Den
        ELSE 0]
    \o <<0>>

EmptyDict == [keys |-> {}, aa |-> <<>>, const |-> 0, lcf |-> 0]

(* Lines 329-334. *)
FormOutput(detected, solution, factor) ==
    [keys |-> {"aa", "const", "lcf"},
     aa |-> [l \in Range(detected) |->
                solution[CHOOSE j \in 1..Len(detected) : detected[j] = l]],
     const |-> solution[Len(detected) + 1],
     lcf |-> factor]

(* Lines 340-342. *)
UndefinedTermRCs(aa_dict, term_label) ==
    {aa \in DOMAIN aa_dict :
        ~IsTerminal(aa) /\ Plus(term_label, aa) \notin DOMAIN aa_dict}

(* Lines 347-349. *)
DefinedTermRCs(aa_dict, term_label) ==
    {aa \in DOMAIN aa_dict :
        ~IsTerminal(aa) /\ Plus(term_label, aa) \in DOMAIN aa_dict}

(* DefineMissing with the value stored under the internal label aa instead *)
(* of term_label + aa.                                                     *)
DefineMissingUnderInternal(aa_dict, term_label, a, b) ==
    LET undefined == UndefinedTermRCs(aa_dict, term_label)
    IN [l \in DOMAIN aa_dict |->
           IF l \in undefined THEN a * aa_dict[l] + b ELSE aa_dict[l]]

(* Lines 356-357: the missing terminal RCs from the line a*x + b. *)
DefineMissing(aa_dict, term_label, a, b) ==
    LET undefined == UndefinedTermRCs(aa_dict, term_label)
        new == {Plus(term_label, aa) : aa \in undefined}
    IN [l \in DOMAIN aa_dict \cup new |->
           IF l \in new
           THEN a * aa_dict[<<"", l[2]>>] + b
           ELSE aa_dict[l]]

(* Lines 339-357 for one terminus: the outcomes, each with the dictionary  *)
(* it leaves, whether linear_regression was called and whether it raised.  *)
InferTerminal(aa_dict, term_label) ==
    IF UndefinedTermRCs(aa_dict, term_label) = {}
    THEN {[raised |-> FALSE, called |-> FALSE, aa |-> aa_dict]}
    ELSE LET defined == ListOf(DefinedTermRCs(aa_dict, term_label))
             x == [i \in 1..Len(defined) |-> aa_dict[defined[i]]]
             y == [i \in 1..Len(defined) |->
                      aa_dict[Plus(term_label, defined[i])]]
         IN {[raised |-> fit.raised, called |-> TRUE,
              aa |-> IF fit.raised THEN aa_dict
                     ELSE DefineMissing(aa_dict, term_label, fit.a, fit.b)] :
                fit \in linear_regression(x, y)}

----------------------------------------------------------------------------
(* get_RCs, step by step, as invocation p.  Invocations share peptides and *)
(* RTs; everything else is local to the invocation.                        *)

ZeroTo(n) == [i \in 1..n |-> 0]

(* The invocations at the positions pc0, called with the factors lcf0. *)
Called(pc0, lcf0) ==
    /\ pc = pc0
    /\ length_correction_factor = lcf0
    /\ peptide_dicts = [p \in Procs |-> <<>>]
    /\ detected_amino_acids = [p \in Procs |-> <<>>]
    /\ composition_array = [p \in Procs |-> <<>>]
    /\ term_i = [p \in Procs |-> 1]
    /\ RCs = [p \in Procs |-> <<>>]
    /\ RC_dict = [p \in Procs |-> EmptyDict]
    /\ err = [p \in Procs |-> ""]
    /\ solver_b = [p \in Procs |-> <<>>]
    /\ solver_called = [p \in Procs |-> FALSE]
    /\ regression_called = [p \in Procs |-> <<FALSE, FALSE>>]

(* Lines 285-300: the compositions, the detected labels and the rows of    *)
(* the peptides.                                                           *)
BuildCompositionArray(p) ==
    /\ pc[p] = "start"
    /\ LET dicts == PeptideDicts(peptides, term_aa)
           detected == DetectedAminoAcids(dicts)
       IN /\ peptide_dicts' = [peptide_dicts EXCEPT ![p] = dicts]
          /\ detected_amino_acids' = [detected_amino_acids EXCEPT ![p] = detected]
          /\ composition_array' =
                 [composition_array EXCEPT ![p] =
                     CompositionArray(peptides, dicts, detected,
                                      length_correction_factor[p])]
    /\ term_i' = [term_i EXCEPT ![p] = 1]
    /\ pc' = [pc EXCEPT ![p] = IF term_aa THEN "normalize" ELSE "solve"]
    /\ UNCHANGED <<searchVars, predictVars>>
    /\ UNCHANGED <<peptides, RTs, RTs_in, length_correction_factor, term_aa,
                   RCs, RC_dict, err, solver_b, solver_called,
                   regression_called>>

(* Lines 307-318, one terminus: a row for the array, a zero for RTs. *)
AppendNormalizingPeptide(p) ==
    /\ pc[p] = "normalize"
    /\ composition_array' =
          [composition_array EXCEPT ![p] =
              Append(@, NormalizingPeptide(term_labels[term_i[p]],
                                           detected_amino_acids[p]))]
    /\ RTs' = Append(RTs, 0)
    /\ IF term_i[p] < Len(term_labels)
       THEN /\ term_i' = [term_i EXCEPT ![p] = @ + 1]
            /\ pc' = pc
       ELSE /\ term_i' = [term_i EXCEPT ![p] = 1]
            /\ pc' = [pc EXCEPT ![p] = "solve"]
    /\ UNCHANGED <<searchVars, predictVars>>
    /\ UNCHANGED <<peptides, RTs_in, length_correction_factor, term_aa,
                   peptide_dicts, detected_amino_acids, RCs, RC_dict, err,
                   solver_b, solver_called, regression_called>>

(* Lines 321-322: the solver gets the array and RTs as they are now. *)
Solve(p) ==
    /\ pc[p] = "solve"
    /\ solver_b' = [solver_b EXCEPT ![p] = RTs]
    /\ solver_called' = [solver_called EXCEPT ![p] = TRUE]
    /\ LET sol == lstsq(composition_array[p], RTs)
       IN IF sol.raised
          THEN /\ err' = [err EXCEPT ![p] = "LinAlgError"]
               /\ pc' = [pc EXCEPT ![p] = "failed"]
               /\ RCs' = RCs
          ELSE /\ \E x \in sol.x : RCs' = [RCs EXCEPT ![p] = x]
               /\ pc' = [pc EXCEPT ![p] = IF term_aa THEN "pop" ELSE "form"]
               /\ err' = err
    /\ UNCHANGED <<searchVars, predictVars>>
    /\ UNCHANGED <<peptides, RTs, RTs_in, length_correction_factor, term_aa,
                   peptide_dicts, detected_amino_acids, composition_array,
                   term_i, RC_dict, regression_called>>

(* Lines 324-326, one terminus: RTs.pop(). *)
PopRT(p) ==
    /\ pc[p] = "pop"
    /\ IF Len(RTs) = 0
       THEN /\ err' = [err EXCEPT ![p] = "IndexError"]
            /\ pc' = [pc EXCEPT ![p] = "failed"]
            /\ UNCHANGED <<RTs, term_i>>
       ELSE /\ RTs' = SubSeq(RTs, 1, Len(RTs) - 1)
            /\ err' = err
            /\ IF term_i[p] < Len(term_labels)
               THEN /\ term_i' = [term_i EXCEPT ![p] = @ + 1]
                    /\ pc' = pc
               ELSE /\ term_i' = [term_i EXCEPT ![p] = 1]
                    /\ pc' = [pc EXCEPT ![p] = "form"]
    /\ UNCHANGED <<searchVars, predictVars>>
    /\ UNCHANGED <<peptides, RTs_in, length_correction_factor, term_aa,
                   peptide_dicts, detected_amino_acids, composition_array,
                   RCs, RC_dict, solver_b, solver_called, regression_called>>

(* Lines 329-334; without term_aa the dictionary is returned (line 359). *)
FormRCDict(p) ==
    /\ pc[p] = "form"
    /\ RC_dict' = [RC_dict EXCEPT ![p] =
                      FormOutput(detected_amino_acids[p], RCs[p],
                                 length_correction_factor[p])]
    /\ pc' = [pc EXCEPT ![p] = IF term_aa THEN "infer" ELSE "done"]
    /\ UNCHANGED <<searchVars, predictVars>>
    /\ UNCHANGED <<peptides, RTs, RTs_in, length_correction_factor, term_aa,
                   peptide_dicts, detected_amino_acids, composition_array,
                   term_i, RCs, err, solver_b, solver_called,
                   regression_called>>

(* Lines 338-357, one terminus; after the last one the dictionary is       *)
(* returned (line 359).                                                    *)
FindTerminalRCs(p) ==
    /\ pc[p] = "infer"
    /\ \E out \in InferTerminal(RC_dict[p].aa, term_labels[term_i[p]]) :
          /\ regression_called' =
                 [regression_called EXCEPT ![p][term_i[p]] = out.called]
          /\ IF out.raised
             THEN /\ err' = [err EXCEPT ![p] = "RegressionError"]
                  /\ pc' = [pc EXCEPT ![p] = "failed"]
                  /\ UNCHANGED <<RC_dict, term_i>>
             ELSE /\ RC_dict' = [RC_dict EXCEPT ![p].aa = out.aa]
                  /\ err' = err
                  /\ IF term_i[p] < Len(term_labels)
                     THEN /\ term_i' = [term_i EXCEPT ![p] = @ + 1]
                          /\ pc' = pc
                     ELSE /\ term_i' = [term_i EXCEPT ![p] = 1]
                          /\ pc' = [pc EXCEPT ![p] = "done"]
    /\ UNCHANGED <<searchVars, predictVars>>
    /\ UNCHANGED <<peptides, RTs, RTs_in, length_correction_factor, term_aa,
                   peptide_dicts, detected_amino_acids, composition_array,
                   RCs, solver_b, solver_called>>

----------------------------------------------------------------------------
(* get_RCs and calculate_RT as one call, for the callers inside the module. *)

(* Lines 337-359, from the terminus at position i on. *)
RECURSIVE FindRemainingTerminalRCs(_, _, _)
FindRemainingTerminalRCs(d, rts, i) ==
    IF i > Len(term_labels)
    THEN {[raised |-> FALSE, err |-> "", RTs |-> rts, RC_dict |-> d]}
    ELSE UNION {
            IF out.raised
            THEN {[raised |-> TRUE, err |-> "RegressionError", RTs |-> rts,
                   RC_dict |-> EmptyDict]}
            ELSE FindRemainingTerminalRCs([d EXCEPT !.aa = out.aa], rts, i + 1) :
            out \in InferTerminal(d.aa, term_labels[i])}

(* get_RCs(peptides, RTs, length_correction_factor, term_aa): the outcomes, *)
(* each with what it leaves in the caller's list RTs.                      *)
get_RCs(ps, rts, factor, ta) ==
    LET dicts == PeptideDicts(ps, ta)
        detected == DetectedAminoAcids(dicts)
        rows == CompositionArray(ps, dicts, detected, factor)
        array == IF ta
                 THEN rows \o [i \in 1..Len(term_labels) |->
                                  NormalizingPeptide(term_labels[i], detected)]
                 ELSE rows
        b == IF ta THEN rts \o ZeroTo(Len(term_labels)) ELSE rts
        sol == lstsq(array, b)
    IN IF sol.raised
       THEN {[raised |-> TRUE, err |-> "LinAlgError", RTs |-> b,
              RC_dict |-> EmptyDict]}
       ELSE UNION {
               IF ta
               THEN FindRemainingTerminalRCs(FormOutput(detected, x, factor), rts, 1)
               ELSE {[raised |-> FALSE, err |-> "", RTs |-> rts,
                      RC_dict |-> FormOutput(detected, x, factor)]} :
               x \in sol.x}

(* SumRCs with lines 475-477 active: a terminal label RC_dict['aa'] lacks  *)
(* takes the RC of the internal label (aa[5:]).                            *)
RECURSIVE SumRCsWithFallback(_, _, _, _)
SumRCsWithFallback(present, peptide_dict, aa_dict, j) ==
    IF j > Len(present) THEN [raised |-> FALSE, sum |-> 0]
    ELSE LET aa == present[j]
             key == IF aa \notin DOMAIN aa_dict /\ IsTerminal(aa)
                    THEN <<"", aa[2]>> ELSE aa
             rest == SumRCsWithFallback(present, peptide_dict, aa_dict, j + 1)
         IN IF key \notin DOMAIN aa_dict THEN [raised |-> TRUE, sum |-> 0]
            ELSE [raised |-> rest.raised,
                  sum |-> peptide_dict[aa] * aa_dict[key] + rest.sum]

(* Lines 473-479 from the label at position j on: the sum of the products *)
(* count * RC, or the KeyError of the first label RC_dict['aa'] lacks.     *)
RECURSIVE SumRCs(_, _, _, _)
SumRCs(present, peptide_dict, aa_dict, j) ==
    IF j > Len(present) THEN [raised |-> FALSE, sum |-> 0]
    ELSE IF present[j] \notin DOMAIN aa_dict THEN [raised |-> TRUE, sum |-> 0]
    ELSE LET rest == SumRCs(present, peptide_dict, aa_dict, j + 1)
         IN [raised |-> rest.raised,
             sum |-> peptide_dict[present[j]] * aa_dict[present[j]] + rest.sum]

(* AddCorrections with RT += length_correction_term for RT *= ... *)
AddCorrectionsPlus(sum, length_correction_term, const) ==
    sum * Den + length_correction_term + const * Den

(* Lines 480-481: RT *= length_correction_term; RT += RC_dict['const'].    *)
(* The result is in thousandths.                                           *)
AddCorrections(sum, length_correction_term, const) ==
    sum * length_correction_term + const * Den

(* calculate_RT(peptide, RC_dict), lines 458-483. *)
calculate_RT(pep, d) ==
    LET ta == \E aa \in DOMAIN d.aa : IsTerminal(aa)
        peptide_dict == amino_acid_composition(pep, ta)
        length_correction_term ==
            LengthCorrection(d.lcf, peptide_length(peptide_dict))
        s == SumRCs(ListOf(DOMAIN peptide_dict), peptide_dict, d.aa, 1)
    IN IF s.raised
       THEN [raised |-> TRUE, err |-> "KeyError", RT |-> 0]
       ELSE [raised |-> FALSE, err |-> "",
             RT |-> AddCorrections(s.sum, length_correction_term, d.const)]

----------------------------------------------------------------------------
(* get_RCs_vary_lcf, lines 404-427.                                        *)

Tolerance == 100       \* the 0.1 of line 412, in thousandths
GridSize == 10         \* the 10.0 of lines 411, 414 and 425
InitialBestR == -11    \* the -1.1 of line 406, in tenths

(* A step in thousandths as a difference of factors, which are in          *)
(* hundredths, and back.                                                   *)
StepOf(width) == (width * (StepUnit \div LcfUnit)) \div GridSize
WidthOf(s) == s \div (StepUnit \div LcfUnit)

(* The correlation coefficients linear_regression can report, in tenths;   *)
(* it can also report nan.                                                 *)
Scores == {-10, 0, 10}

(* numpy.arange(min_lcf, max_lcf, (max_lcf - min_lcf) / 10.0), in exact    *)
(* arithmetic: the ten factors lo + k * (hi - lo) / 10.                    *)
arange(lo, hi) ==
    IF hi <= lo THEN <<>>
    ELSE [k \in 1..GridSize |-> lo + (k - 1) * ((hi - lo) \div GridSize)]

(* regression_coeffs[2]: a number r, or nan. *)
Score(r) == [nan |-> FALSE, r |-> r]
NaN == [nan |-> TRUE, r |-> 0]

(* Line 420: regression_coeffs[2] > best_r, with >= for >. *)
ImprovesOrTies(coeffs, best) == ~coeffs.nan /\ coeffs.r >= best

(* Line 420: regression_coeffs[2] > best_r; False when it is nan. *)
Improves(coeffs, best) == ~coeffs.nan /\ coeffs.r > best

(* No factor of the round has a score yet. *)
NoRoundBest == [has |-> FALSE, lcf |-> 0, r |-> 0]

(* The first best-scoring factor of the round after the factor f scored.   *)
RoundBestAfter(best, f, coeffs) ==
    IF ~coeffs.nan /\ (~best.has \/ coeffs.r > best.r)
    THEN [has |-> TRUE, lcf |-> f, r |-> coeffs.r]
    ELSE best

(* NewInterval with the centre as the lower end. *)
NewIntervalAbove(centre, s) == <<centre, centre + 2 * WidthOf(s)>>

(* Lines 423-424: min_lcf and max_lcf around the centre. *)
NewInterval(centre, s) == <<centre - WidthOf(s), centre + WidthOf(s)>>

NoSearch ==
    /\ vpc = "idle"
    /\ lcf_range = <<0, 0>>
    /\ min_lcf = 0
    /\ max_lcf = 0
    /\ step = 0
    /\ lcf_grid = <<>>
    /\ grid_i = 0
    /\ lcf = 0
    /\ regression_coeffs = NaN
    /\ round_best = NoRoundBest
    /\ best_r = 0
    /\ best_RC_dict = EmptyDict
    /\ verr = ""

(* Lines 406-411. *)
StartSearch ==
    /\ vpc = "start"
    /\ best_r' = InitialBestR
    /\ best_RC_dict' = EmptyDict
    /\ min_lcf' = lcf_range[1]
    /\ max_lcf' = lcf_range[2]
    /\ step' = StepOf(lcf_range[2] - lcf_range[1])
    /\ vpc' = "while"
    /\ UNCHANGED <<lcf_range, lcf_grid, grid_i, lcf, regression_coeffs,
                   round_best, verr>>
    /\ UNCHANGED <<peptides, RTs, RTs_in, term_aa, calVars, predictVars>>

(* Lines 412-414: the test of the while loop; the grid, or line 427. *)
WhileStep ==
    /\ vpc = "while"
    /\ IF step > Tolerance
       THEN /\ lcf_grid' = arange(min_lcf, max_lcf)
            /\ grid_i' = 1
            /\ round_best' = NoRoundBest
            /\ vpc' = "for"
       ELSE /\ vpc' = "done"
            /\ UNCHANGED <<lcf_grid, grid_i, round_best>>
    /\ UNCHANGED <<lcf_range, min_lcf, max_lcf, step, lcf, regression_coeffs,
                   best_r, best_RC_dict, verr>>
    /\ UNCHANGED <<peptides, RTs, RTs_in, term_aa, calVars, predictVars>>

(* Lines 415-422, one factor of the grid. *)
EvaluateLcf ==
    /\ vpc = "for"
    /\ grid_i <= Len(lcf_grid)
    /\ lcf' = lcf_grid[grid_i]
    /\ grid_i' = grid_i + 1
    /\ \E out \in get_RCs(peptides, RTs, lcf_grid[grid_i], term_aa) :
          LET times == [i \in 1..Len(peptides) |->
                           calculate_RT(peptides[i], out.RC_dict)]
          IN /\ RTs' = out.RTs
             /\ IF out.raised
                THEN /\ verr' = out.err
                     /\ vpc' = "failed"
                     /\ UNCHANGED <<regression_coeffs, round_best, best_r,
                                    best_RC_dict>>
                ELSE IF \E i \in 1..Len(peptides) : times[i].raised
                THEN /\ verr' = "KeyError"
                     /\ vpc' = "failed"
                     /\ UNCHANGED <<regression_coeffs, round_best, best_r,
                                    best_RC_dict>>
                ELSE /\ \E coeffs \in {Score(r) : r \in Scores} \cup {NaN} :
                           /\ regression_coeffs' = coeffs
                           /\ round_best' =
                                 RoundBestAfter(round_best, lcf_grid[grid_i], coeffs)
                           /\ IF Improves(coeffs, best_r)
                              THEN /\ best_r' = coeffs.r
                                   /\ best_RC_dict' = out.RC_dict
                              ELSE UNCHANGED <<best_r, best_RC_dict>>
                     /\ vpc' = IF grid_i = Len(lcf_grid) THEN "recentre" ELSE "for"
                     /\ verr' = verr
    /\ UNCHANGED <<lcf_range, min_lcf, max_lcf, step, lcf_grid>>
    /\ UNCHANGED <<peptides, RTs_in, term_aa, calVars, predictVars>>

(* Lines 423-425. *)
Recentre ==
    /\ vpc = "recentre"
    /\ IF "lcf" \in best_RC_dict.keys
       THEN /\ min_lcf' = NewInterval(best_RC_dict.lcf, step)[1]
            /\ max_lcf' = NewInterval(best_RC_dict.lcf, step)[2]
            /\ step' = StepOf(2 * WidthOf(step))
            /\ vpc' = "while"
            /\ verr' = verr
       ELSE /\ verr' = "KeyError"
            /\ vpc' = "failed"
            /\ UNCHANGED <<min_lcf, max_lcf, step>>
    /\ UNCHANGED <<lcf_range, lcf_grid, grid_i, lcf, regression_coeffs,
                   round_best, best_r, best_RC_dict>>
    /\ UNCHANGED <<peptides, RTs, RTs_in, term_aa, calVars, predictVars>>

----------------------------------------------------------------------------
(* calculate_RT on a model and on the model scaled by a factor.            *)

Scaled(d, k) ==
    [d EXCEPT !.aa = [l \in DOMAIN d.aa |-> k * d.aa[l]], !.const = k * d.const]

NoOutcome == [raised |-> FALSE, err |-> "", RT |-> 0]

NoPredict ==
    /\ cpc = "idle"
    /\ peptide = <<>>
    /\ model = EmptyDict
    /\ scale = 1
    /\ RT = NoOutcome
    /\ RT_scaled = NoOutcome
    /\ predicted = <<>>

CalculateRT ==
    /\ cpc = "start"
    /\ RT' = calculate_RT(peptide, model)
    /\ cpc' = "scaled"
    /\ UNCHANGED <<peptide, model, scale, RT_scaled, predicted>>
    /\ UNCHANGED <<peptides, RTs, RTs_in, term_aa, calVars, searchVars>>

CalculateRTScaled ==
    /\ cpc = "scaled"
    /\ RT_scaled' = calculate_RT(peptide, Scaled(model, scale))
    /\ cpc' = "done"
    /\ UNCHANGED <<peptide, model, scale, RT, predicted>>
    /\ UNCHANGED <<peptides, RTs, RTs_in, term_aa, calVars, searchVars>>

(* Line 419, one sequence: calculate_RT of the next training sequence with *)
(* the dictionary get_RCs returned.                                        *)
CalculateTrainingRT ==
    /\ pc[1] = "done"
    /\ Len(predicted) < Len(peptides)
    /\ predicted' =
          Append(predicted, calculate_RT(peptides[Len(predicted) + 1], RC_dict[1]))
    /\ UNCHANGED <<cpc, peptide, model, scale, RT, RT_scaled>>
    /\ UNCHANGED <<peptides, RTs, RTs_in, term_aa, calVars, searchVars>>

----------------------------------------------------------------------------
(* Spec: one call of get_RCs.                                              *)

Init ==
    /\ peptides \in Samples
    /\ RTs \in RTLists
    /\ RTs_in = RTs
    /\ term_aa \in BOOLEAN
    /\ \E factor \in LcfValues :
          Called([p \in Procs |-> IF p = 1 THEN "start" ELSE "idle"],
                 [p \in Procs |-> IF p = 1 THEN factor ELSE 0])
    /\ NoSearch
    /\ NoPredict

Next ==
    \/ BuildCompositionArray(1)
    \/ AppendNormalizingPeptide(1)
    \/ Solve(1)
    \/ PopRT(1)
    \/ FormRCDict(1)
    \/ FindTerminalRCs(1)

Spec == Init /\ [][Next]_vars

(* SpecConcurrent: two invocations of get_RCs, as run by two workers for   *)
(* two factors of a grid, on the same lists peptides and RTs.  Each        *)
(* statement that touches RTs is one step.                                 *)

InitConcurrent ==
    /\ peptides \in Samples \ {<<>>}
    /\ RTs \in {rts \in RTLists : Len(rts) = Len(peptides)}
    /\ RTs_in = RTs
    /\ term_aa \in BOOLEAN
    /\ Called([p \in Procs |-> "start"],
              [p \in Procs |-> IF p = 1 THEN -21 ELSE 0])
    /\ NoSearch
    /\ NoPredict

NextConcurrent ==
    \E p \in Procs :
        \/ BuildCompositionArray(p)
        \/ AppendNormalizingPeptide(p)
        \/ Solve(p)
        \/ PopRT(p)
        \/ FormRCDict(p)
        \/ FindTerminalRCs(p)

SpecConcurrent == InitConcurrent /\ [][NextConcurrent]_vars

(* SpecSearch: one call of get_RCs_vary_lcf. *)

MaxEnd == 3        \* the far ends of lcf_range are -MaxEnd and MaxEnd

(* The intervals searched: empty, inverted, one unit wide, and wider ones  *)
(* up to (-MaxEnd, MaxEnd).                                                *)
LcfRanges ==
    {<<lo * LcfUnit, hi * LcfUnit>> :
        lo \in {-MaxEnd, 0, 1}, hi \in {0, 1, MaxEnd}}

(* The samples searched: none, ['A'] and ['A', 'AA']. *)
SearchSamples == {SubSeq(<< <<"A">>, <<"A", "A">> >>, 1, n) : n \in 0..2}

InitSearch ==
    /\ peptides \in SearchSamples
    /\ RTs \in {<<1>>, <<1, 2>>}
    /\ RTs_in = RTs
    /\ term_aa \in BOOLEAN
    /\ Called([p \in Procs |-> "idle"], [p \in Procs |-> 0])
    /\ NoPredict
    /\ lcf_range \in LcfRanges
    /\ vpc = "start"
    /\ min_lcf = 0
    /\ max_lcf = 0
    /\ step = 0
    /\ lcf_grid = <<>>
    /\ grid_i = 0
    /\ lcf = 0
    /\ regression_coeffs = NaN
    /\ round_best = NoRoundBest
    /\ best_r = 0
    /\ best_RC_dict = EmptyDict
    /\ verr = ""

NextSearch ==
    \/ StartSearch
    \/ WhileStep
    \/ EvaluateLcf
    \/ Recentre

SpecSearch == InitSearch /\ [][NextSearch]_vars

(* SpecPredict: calculate_RT on a model and on the model scaled. *)

MaxScale == 3      \* the model is scaled by 2..MaxScale

Models ==
    {[keys |-> {"aa", "const", "lcf"}, aa |-> aa, const |-> c, lcf |-> f] :
        aa \in UNION {[K -> 1..MaxCoef] : K \in SUBSET Labels},
        c \in CoefVals, f \in LcfValues}

InitPredict ==
    /\ peptides = <<>>
    /\ RTs = <<>>
    /\ RTs_in = <<>>
    /\ term_aa = FALSE
    /\ Called([p \in Procs |-> "idle"], [p \in Procs |-> 0])
    /\ NoSearch
    /\ cpc = "start"
    /\ peptide \in Range(TrainingPeptides)
    /\ model \in Models
    /\ scale \in 2..MaxScale
    /\ RT = NoOutcome
    /\ RT_scaled = NoOutcome
    /\ predicted = <<>>

NextPredict ==
    \/ CalculateRT
    \/ CalculateRTScaled

SpecPredict == InitPredict /\ [][NextPredict]_vars

(* SpecRoundTrip: get_RCs on a sample whose retention times are m times    *)
(* the lengths of its sequences, then calculate_RT of every sequence of    *)
(* the sample with the dictionary returned.                                *)

RoundTripPeptides ==
    << <<"A">>, <<"A", "A">>, <<"A">>, <<"B">>, <<"A", "A", "A">> >>

RoundTripSamples ==
    {SubList(RoundTripPeptides, I) :
        I \in {J \in SUBSET (1..Len(RoundTripPeptides)) : Cardinality(J) <= MaxSamples}}

InitRoundTrip ==
    /\ peptides \in RoundTripSamples
    /\ \E m \in CoefVals : RTs = [i \in 1..Len(peptides) |-> m * Len(peptides[i])]
    /\ RTs_in = RTs
    /\ term_aa \in BOOLEAN
    /\ \E factor \in LcfValues :
          Called([p \in Procs |-> IF p = 1 THEN "start" ELSE "idle"],
                 [p \in Procs |-> IF p = 1 THEN factor ELSE 0])
    /\ NoSearch
    /\ NoPredict

NextRoundTrip ==
    \/ BuildCompositionArray(1)
    \/ AppendNormalizingPeptide(1)
    \/ Solve(1)
    \/ PopRT(1)
    \/ FormRCDict(1)
    \/ FindTerminalRCs(1)
    \/ CalculateTrainingRT

SpecRoundTrip == InitRoundTrip /\ [][NextRoundTrip]_vars

----------------------------------------------------------------------------
(* Properties of get_RCs (Spec).                                           *)

Ended(p) == pc[p] \in {"done", "failed"}
Mismatch == Len(peptides) # Len(RTs_in)
NoCategory ==
    UNION {DOMAIN amino_acid_composition(peptides[i], term_aa) :
              i \in 1..Len(peptides)} = {}

(* C1: however a call of get_RCs ends, by a return or by an exception of   *)
(* any step, the caller's list RTs has the length and the elements it had  *)
(* before the call.                                                        *)
C1_TargetsUnchanged == Ended(1) => RTs = RTs_in

(* C2: when the numbers of sequences and of retention times differ the     *)
(* call fails, and it fails before a row of the array is built, before a   *)
(* row or a zero is appended, and before the solver is called.             *)
C2_MismatchRejectedFirst ==
    Mismatch =>
        /\ composition_array[1] = <<>>
        /\ RTs = RTs_in
        /\ ~solver_called[1]
        /\ Ended(1) => pc[1] = "failed"

(* C3: when no label is detected in the sample the call fails: the solver  *)
(* is never called on an array whose only column is the free term, and no  *)
(* dictionary with an empty 'aa' is returned.                              *)
C3_EmptyAlphabetRejected ==
    NoCategory =>
        /\ ~(solver_called[1] /\ composition_array[1] # <<>>)
        /\ pc[1] # "done"

(* C8: after get_RCs returns, every label of the composition of every      *)
(* peptide of the sample is a key of RC_dict['aa'], RC_dict['lcf'] is the  *)
(* factor passed in, and every label the solver estimated still has the    *)
(* solver's value.                                                         *)
C8_EveryLabelHasRC ==
    pc[1] = "done" =>
        /\ \A i \in 1..Len(peptides) :
              DOMAIN amino_acid_composition(peptides[i], term_aa)
                  \subseteq DOMAIN RC_dict[1].aa
        /\ RC_dict[1].lcf = length_correction_factor[1]
        /\ \A j \in 1..Len(detected_amino_acids[1]) :
              RC_dict[1].aa[detected_amino_acids[1][j]] = RCs[1][j]

(* A return after the terminal RCs of a terminus were found from the line. *)
C8_Witness ==
    /\ pc[1] = "done"
    /\ term_aa
    /\ \E t \in 1..Len(term_labels) : regression_called[1][t]
    /\ DOMAIN RC_dict[1].aa # Range(detected_amino_acids[1])

AppendsDone(p) == pc[p] \in {"solve", "pop", "form", "infer", "done", "failed"}
Formed(p) == pc[p] \in {"infer", "done"}

(* The entry of the row of the terminus term_label in the column of the    *)
(* label aa, as the claim states it.                                       *)
ConstraintEntry(term_label, aa, detected) ==
    IF aa[1] = term_label THEN Den
    ELSE IF aa[1] = "" /\ <<term_label, aa[2]>> \in detected THEN -Den
    ELSE 0

(* C12: with term_aa get_RCs appends two rows, for nterm and then for      *)
(* cterm, and two zeros to RTs, and without term_aa none.  The row of a    *)
(* terminus has 1 for each detected label of the terminus, -1 for each     *)
(* detected internal label whose label at the terminus is detected too, 0  *)
(* for any other label and 0 for the free term.  The columns of these rows *)
(* are in the order of the columns of the rows of the peptides and of the  *)
(* RCs in the solution.                                                    *)
C12_NormalizingRows ==
    LET n == Len(peptides)
        detected == detected_amino_acids[1]
        k == Len(detected)
        array == composition_array[1]
        added == IF term_aa THEN Len(term_labels) ELSE 0
    IN /\ AppendsDone(1) =>
             /\ Len(array) = n + added
             /\ \A t \in 1..added :
                   array[n + t] =
                       [j \in 1..(k + 1) |->
                           IF j = k + 1 THEN 0
                           ELSE ConstraintEntry(term_labels[t], detected[j],
                                                Range(detected))]
             /\ \A i \in 1..n : \A j \in 1..k :
                   array[i][j] =
                       Get(amino_acid_composition(peptides[i], term_aa), detected[j])
                       * LengthCorrection(length_correction_factor[1],
                                          Len(peptides[i]))
       /\ solver_called[1] => solver_b[1] = RTs_in \o ZeroTo(added)
       /\ Formed(1) =>
             /\ \A j \in 1..k : RC_dict[1].aa[detected[j]] = RCs[1][j]
             /\ RC_dict[1].const = RCs[1][k + 1]

(* A call with term_aa has returned; the row of nterm has a 1, a -1 and a  *)
(* 0 in the column of a cterm label.                                       *)
C12_Witness ==
    LET n == Len(peptides)
        detected == detected_amino_acids[1]
        row == composition_array[1][n + 1]
    IN /\ term_aa
       /\ pc[1] = "done"
       /\ \E j \in 1..Len(detected) : row[j] = Den
       /\ \E j \in 1..Len(detected) : row[j] = -Den
       /\ \E j \in 1..Len(detected) :
             startswith(detected[j], "cterm") /\ row[j] = 0

(* The internal labels the solver estimated that lack the label of the     *)
(* terminus, when no internal label has it.                                *)
LabelsInGap(term_label) ==
    LET estimated == [l \in Range(detected_amino_acids[1]) |-> 0]
    IN IF DefinedTermRCs(estimated, term_label) = {}
       THEN UndefinedTermRCs(estimated, term_label)
       ELSE {}

(* C13: with term_aa, a terminus for which an internal label lacks its     *)
(* terminal RC while no internal label has both RCs is skipped:            *)
(* linear_regression is not called for it, the call does not fail on it,   *)
(* and the dictionary returned has no RC for the missing terminal labels.  *)
C13_GapTerminusSkipped ==
    (term_aa /\ AppendsDone(1)) =>
        \A t \in 1..Len(term_labels) :
            LabelsInGap(term_labels[t]) # {} =>
                /\ ~regression_called[1][t]
                /\ err[1] # "RegressionError"
                /\ pc[1] = "done" =>
                       \A aa \in LabelsInGap(term_labels[t]) :
                           Plus(term_labels[t], aa) \notin DOMAIN RC_dict[1].aa

(* Properties of concurrent invocations (SpecConcurrent).                  *)

(* C7: in every interleaving of two invocations on the same lists, each    *)
(* hands the solver the caller's retention times followed by its own       *)
(* zeros only, and when both have ended RTs is what it was.                *)
C7_ConcurrentCallsOnlyRead ==
    /\ \A p \in Procs :
          solver_called[p] =>
              solver_b[p] =
                  RTs_in \o ZeroTo(IF term_aa THEN Len(term_labels) ELSE 0)
    /\ (\A p \in Procs : Ended(p)) => RTs = RTs_in

(* Properties of get_RCs_vary_lcf (SpecSearch).                            *)

SearchEnded == vpc \in {"done", "failed"}
IsComplete(d) == d.keys = {"aa", "const", "lcf"}
CalibrationSucceeds ==
    \A out \in get_RCs(peptides, RTs_in, lcf_range[1], term_aa) : ~out.raised

(* C4: with an empty or inverted lcf_range the call fails and returns      *)
(* nothing.                                                                *)
C4_InvalidRangeFails == lcf_range[1] >= lcf_range[2] => vpc # "done"

(* C5: with lcf_range[0] < lcf_range[1], however narrow, and a sample      *)
(* get_RCs succeeds on, the call returns a dictionary with 'aa', 'const'   *)
(* and 'lcf'.                                                              *)
C5_ReturnsCompleteModel ==
    (SearchEnded /\ lcf_range[1] < lcf_range[2] /\ CalibrationSucceeds) =>
        vpc = "done" /\ IsComplete(best_RC_dict)

InRange(f) == lcf_range[1] <= f /\ f <= lcf_range[2]

(* C6: every factor evaluated in any round, and the factor of the          *)
(* dictionary returned, lies in the closed interval lcf_range.             *)
C6_FactorsInsideRange ==
    /\ (vpc \in {"for", "recentre"} /\ grid_i > 1) => InRange(lcf)
    /\ (vpc = "done" /\ IsComplete(best_RC_dict)) => InRange(best_RC_dict.lcf)

(* A round has been run and the interval re-centred after it. *)
Recentred == vpc \in {"while", "done"} /\ lcf_grid # <<>>

(* The step of the last round, as a difference of factors. *)
LastStep == lcf_grid[2] - lcf_grid[1]

RoundOnlyAboveTolerance == vpc \in {"for", "recentre"} => step > Tolerance

RecentringShrinks ==
    Recentred =>
        /\ max_lcf - min_lcf = 2 * LastStep
        /\ GridSize * step = 2 * LastStep * (StepUnit \div LcfUnit)

FailsOnlyInCalibration ==
    vpc = "failed" => verr \in {"LinAlgError", "RegressionError", "IndexError"}

(* C14: a round of get_RCs_vary_lcf runs only while step > 0.1; each       *)
(* re-centring makes the interval twice the step wide, so the step becomes *)
(* a fifth of what it was; and the search does not fail: a round in which  *)
(* no correlation exceeds the initial best_r of -1.1 ends with the         *)
(* interval re-centred like any other.                                     *)
C14_RoundsEndRecentred ==
    /\ RoundOnlyAboveTolerance
    /\ RecentringShrinks
    /\ FailsOnlyInCalibration

(* The factors of a round: ten, at lo + k * (hi - lo) / 10 for k = 0..9,   *)
(* and all of them evaluated when the round ends.                          *)
TenCandidates ==
    vpc \in {"for", "recentre"} =>
        /\ Len(lcf_grid) = GridSize
        /\ \A k \in 0..(GridSize - 1) :
              GridSize * (lcf_grid[k + 1] - min_lcf) = k * (max_lcf - min_lcf)
        /\ \A k \in 1..Len(lcf_grid) : lcf_grid[k] < max_lcf
        /\ vpc = "recentre" => grid_i = GridSize + 1

(* No factor evaluated so far scored above best_r. *)
BestAboveLast ==
    (vpc \in {"for", "recentre"} /\ grid_i > 1 /\ ~regression_coeffs.nan) =>
        best_r >= regression_coeffs.r

(* best_r never decreases; while it stays, best_RC_dict stays; when it     *)
(* rises, it is the score of the factor just evaluated and best_RC_dict is *)
(* the dictionary of that factor.                                          *)
BestKept ==
    vpc # "start" =>
        /\ best_r' >= best_r
        /\ best_r' = best_r => best_RC_dict' = best_RC_dict
        /\ best_r' > best_r =>
              /\ ~regression_coeffs'.nan
              /\ best_r' = regression_coeffs'.r
              /\ best_RC_dict' \in
                     {out.RC_dict : out \in get_RCs(peptides, RTs_in, lcf', term_aa)}

(* C15: over all rounds of get_RCs_vary_lcf best_r never decreases,        *)
(* best_RC_dict is the dictionary of the factor that scored best_r, no     *)
(* factor evaluated in any round scored higher and of those that scored    *)
(* as high the first one is kept; each round evaluates the ten factors     *)
(* lo + k * (hi - lo) / 10, k = 0..9, and never hi.                        *)
C15_GlobalBestKept == [](TenCandidates /\ BestAboveLast) /\ [][BestKept]_vars

(* The search has returned after two rounds, the last factor of the last   *)
(* round scored below the best score, and the best dictionary is kept.     *)
C15_Witness ==
    /\ vpc = "done"
    /\ Recentred
    /\ GridSize * LastStep < lcf_range[2] - lcf_range[1]
    /\ ~regression_coeffs.nan
    /\ regression_coeffs.r < best_r
    /\ IsComplete(best_RC_dict)

Composition ==
    amino_acid_composition(peptide, \E aa \in DOMAIN model.aa : IsTerminal(aa))

(* C9: calculate_RT raises, and returns nothing, whenever the composition  *)
(* of the peptide has a label that RC_dict['aa'] lacks, a terminal label   *)
(* missing next to other terminal labels included.                         *)
C9_UnknownLabelRaises ==
    (cpc # "start" /\ ~(DOMAIN Composition \subseteq DOMAIN model.aa)) =>
        RT.raised /\ RT.err = "KeyError"

(* The cterm label of the last residue is missing from a model that has    *)
(* the nterm label of the first one, and the call has raised.              *)
C9_Witness ==
    /\ cpc = "done"
    /\ Len(peptide) > 1
    /\ <<"nterm", peptide[1]>> \in DOMAIN model.aa
    /\ <<"cterm", peptide[Len(peptide)]>> \notin DOMAIN model.aa
    /\ DOMAIN Composition \ DOMAIN model.aa = {<<"cterm", peptide[Len(peptide)]>>}
    /\ RT.raised

(* C10, as claimed: scaling the RCs and the constant by k scales the       *)
(* retention time by k only when the constant is zero.                     *)
C10_ScalesOnlyWithZeroConst ==
    (cpc = "done" /\ ~RT.raised /\ ~RT_scaled.raised
        /\ RT_scaled.RT = scale * RT.RT)
    => model.const = 0

(* C10, amended: scaling the RCs and the constant by k scales the          *)
(* retention time by k, whatever the constant.                             *)
C10_ScalingScalesRT ==
    (cpc = "done" /\ ~RT.raised) =>
        ~RT_scaled.raised /\ RT_scaled.RT = scale * RT.RT

(* A model with a constant other than zero, scaled, and both times known.  *)
C10_Witness ==
    /\ cpc = "done"
    /\ ~RT.raised
    /\ model.const # 0
    /\ RT.RT # 0
    /\ RT_scaled.RT = scale * RT.RT

(* Properties of get_RCs followed by calculate_RT (SpecRoundTrip).         *)

DetectedLabels ==
    UNION {DOMAIN amino_acid_composition(peptides[i], term_aa) :
              i \in 1..Len(peptides)}

DifferentLengths ==
    \E i, j \in 1..Len(peptides) : Len(peptides[i]) # Len(peptides[j])

TargetsAre(m) ==
    /\ Len(RTs_in) = Len(peptides)
    /\ \A i \in 1..Len(peptides) : RTs_in[i] = m * Len(peptides[i])

ExactlySolvable(m) ==
    /\ Cardinality(DetectedLabels) = 1
    /\ length_correction_factor[1] = 0
    /\ DifferentLengths
    /\ TargetsAre(m)

====
